---------------------------- MODULE Spec2Model ----------------------------
(***************************************************************************)
(* A model of returns/contrib/hypothesis/laws.py: the scoped registration  *)
(* of hypothesis strategies (type_vars, pure_functions,                    *)
(* container_strategies, maybe_register_container), the container factory, *)
(* the generated law checks (_run_law) and their publication               *)
(* (check_all_laws, _create_law_test_case).                                *)
(***************************************************************************)
EXTENDS Naturals, Sequences, FiniteSets, TLC

VARIABLES
    registry,   \* types._global_type_lookup: type -> strategy factory
    stack,      \* the context managers currently open, outermost first
    pc,         \* where the single flow of control stands
    namespace,  \* attributes set on the calling module: name -> artifact
    run,        \* the generated check being executed, or NoRun
    err,        \* the exception the last step raised, "none" otherwise
    closed,     \* the frames the last step closed, and how (history)
    drawn,      \* what the last draw resolved (history)
    called,     \* the containers check_all_laws was called with (history)
    collected,  \* the published names, in the order the harness runs them
    cursor,     \* number of published checks the harness is done with
    examples,   \* executions of the check at the cursor so far
    failed,     \* some execution raised
    skipped,    \* the harness left out some published check
    raised,     \* the exceptions that ended executions so far (history)
    aborted,    \* the containers whose check_all_laws call raised (history)
    pre,        \* the registry before anything ran (history)
    pyversion   \* sys.version_info[:2] of the hosting interpreter

vars == <<registry, stack, pc, namespace, run, err, closed, drawn, called,
          collected, cursor, examples, failed, skipped, raised, aborted, pre,
          pyversion>>

---------------------------------------------------------------------------
(* Bounds of the model.                                                    *)

MaxDepth == 4       \* context managers opened by hand, nested at most
MaxCalls == 2       \* calls of check_all_laws
MaxExamples == 1    \* executions of one generated check

---------------------------------------------------------------------------
(* The classes of the model: the library's interfaces, one container of    *)
(* the library, and two containers and one interface defined by a user.    *)

Containers == {"Maybe", "Box", "Pair"}

\* cls.__mro__
Mro(cls) ==
    CASE cls = "Maybe" -> <<"Maybe", "MaybeLikeN", "ApplicativeN", "MappableN", "object">>
      [] cls = "Box"   -> <<"Box", "myapp.MappableN", "MappableN", "object">>
      [] cls = "Pair"  -> <<"Pair", "ResultLikeN", "ApplicativeN", "MappableN", "object">>
      [] OTHER         -> <<cls, "object">>

\* cls.__module__, as its dotted components
Module(cls) ==
    CASE cls = "Maybe"           -> <<"returns", "maybe">>
      [] cls = "MaybeLikeN"      -> <<"returns", "interfaces", "specific", "maybe">>
      [] cls = "ResultLikeN"     -> <<"returns", "interfaces", "specific", "result">>
      [] cls = "ApplicativeN"    -> <<"returns", "interfaces", "applicative">>
      [] cls = "MappableN"       -> <<"returns", "interfaces", "mappable">>
      [] cls = "Box"             -> <<"myapp", "box">>
      [] cls = "Pair"            -> <<"myapp", "pair">>
      [] cls = "myapp.MappableN" -> <<"myapp", "interfaces">>
      [] OTHER                   -> <<"builtins">>

\* cls.__qualname__
QualName(cls) ==
    CASE cls = "myapp.MappableN" -> "MappableN"
      [] OTHER                   -> cls

\* str.lower() on the qualified names of the model
Lower(s) ==
    CASE s = "Maybe"        -> "maybe"
      [] s = "Box"          -> "box"
      [] s = "Pair"         -> "pair"
      [] s = "MaybeLikeN"   -> "maybeliken"
      [] s = "ResultLikeN"  -> "resultliken"
      [] s = "ApplicativeN" -> "applicativen"
      [] s = "MappableN"    -> "mappablen"
      [] OTHER              -> s

\* issubclass(cls, base)
IsSubclass(cls, base) == \E i \in 1..Len(Mro(cls)) : Mro(cls)[i] = base

\* getattr(cls, '__init__', None) is truthy; Pair sets __init__ = None
HasInit(cls) == cls # "Pair"

\* the interfaces a container declares, own and inherited
CapabilityChain(cls) ==
    {Mro(cls)[i] : i \in 2..Len(Mro(cls))} \ {"object"}

\* container_type.laws(): the law-bearing interfaces with their laws, in
\* declaration order
Laws(cls) ==
    CASE cls = "Maybe" ->
            << <<"MappableN", <<"_identity_law", "_associative_law">> >>,
               <<"ApplicativeN", <<"_identity_law">> >> >>
      [] cls = "Box" ->
            << <<"myapp.MappableN", <<"_identity_law">> >>,
               <<"MappableN", <<"_identity_law", "_associative_law">> >> >>
      [] cls = "Pair" ->
            << <<"MappableN", <<"_identity_law", "_associative_law">> >>,
               <<"ResultLikeN", <<"_equality_law">> >> >>
      [] OTHER -> << >>

---------------------------------------------------------------------------
(* Strategy factories, the values of the registry.                         *)

NoContainer == "-"

Factory(kind, container, use_init) ==
    [kind |-> kind, container |-> container, use_init |-> use_init]

NoFactory == Factory("none", NoContainer, FALSE)
\* hypothesis' own entries for TypeVar and Callable
DefaultTypeVar == Factory("resolve_TypeVar", NoContainer, FALSE)
DefaultCallable == Factory("resolve_Callable", NoContainer, FALSE)
\* a strategy somebody registered before this module ran
UserFactory == Factory("user", NoContainer, FALSE)

\* st.register_type_strategy(key, factory)
Register(reg, key, factory) ==
    [k \in DOMAIN reg \cup {key} |-> IF k = key THEN factory ELSE reg[k]]

\* types._global_type_lookup.pop(key), for a key that is present
Pop(reg, key) == [k \in DOMAIN reg \ {key} |-> reg[k]]


---------------------------------------------------------------------------
(* What the factories of this module build.                                *)

\* the closure returned by _create_container_factory
create_container_factory(container_type, use_init) ==
    Factory("container", container_type, use_init)

\* the list with the use_init test of line 217 left out
container_strategies_list_init(container_type, use_init) ==
    (IF HasInit(container_type) THEN <<"init">> ELSE << >>)
    \o (IF IsSubclass(container_type, "ApplicativeN")
        THEN <<"from_value">> ELSE << >>)
    \o (IF IsSubclass(container_type, "ResultLikeN")
        THEN <<"from_failure">> ELSE << >>)
    \o (IF IsSubclass(container_type, "MaybeLikeN")
        THEN <<"from_optional">> ELSE << >>)

\* the strategies list built by _create_container_factory.factory, in order
container_strategies_list(container_type, use_init) ==
    (IF use_init /\ HasInit(container_type) THEN <<"init">> ELSE << >>)
    \o (IF IsSubclass(container_type, "ApplicativeN")
        THEN <<"from_value">> ELSE << >>)
    \o (IF IsSubclass(container_type, "ResultLikeN")
        THEN <<"from_failure">> ELSE << >>)
    \o (IF IsSubclass(container_type, "MaybeLikeN")
        THEN <<"from_optional">> ELSE << >>)

\* the closure type_vars registers for TypeVar
TypeVarsFactory == Factory("type_vars", NoContainer, FALSE)

\* the closure pure_functions registers for Callable
PureFunctionsFactory == Factory("pure_functions", NoContainer, FALSE)

\* the type variables the laws are written with: a free one, one bound to float
TypeVars == {"_FirstType", "_FloatType"}

NaN == "float:nan"

\* Python's == on the values of the model: nan is not equal to itself
PyEq(a, b) == a = b /\ a # NaN

\* types.resolve_TypeVar(thing): the values hypothesis draws by default
resolve_TypeVar(thing) ==
    IF thing = "_FloatType"
    THEN {"float:0.0", "float:inf", NaN}
    ELSE {"int:0", "str:a", "float:0.0", NaN}

\* the strategy without the filter of lines 184-186
type_vars_factory_unfiltered(thing) == resolve_TypeVar(thing)

\* the values the strategy built by type_vars.factory yields:
\* st.one_of([resolve_TypeVar(thing)]).filter(lambda inner: inner == inner)
type_vars_factory(thing) ==
    {inner \in resolve_TypeVar(thing) : PyEq(inner, inner)}

\* the values a registered TypeVar factory yields for a type variable
TypeVarValues(factory, thing) ==
    IF factory.kind = "type_vars"
    THEN type_vars_factory(thing)
    ELSE resolve_TypeVar(thing)

\* the Callable annotations of the laws, as their __args__
CallableThings == { <<"_FirstType">>, <<"_FirstType", "_FloatType">> }

\* pure_functions.factory(thing): the arguments it gives st.functions
pure_functions_factory(thing) ==
    [like    |-> IF Len(thing) = 1 THEN "lambda: None"
                 ELSE "lambda *args, **kwargs: None",
     returns |-> thing[Len(thing)],
     pure    |-> TRUE]

---------------------------------------------------------------------------
(* The context managers.  A frame is one open context manager; entry is   *)
(* the registry it found when it was entered (history).                    *)

Frame(scope, container_type, use_init, used, unknown_container, inner, entry) ==
    [scope |-> scope, container |-> container_type, use_init |-> use_init,
     used |-> used, unknown_container |-> unknown_container,
     inner |-> inner, entry |-> entry]

NoRun == [name |-> "-", container |-> NoContainer, law |-> "-",
          interface |-> "-", use_init |-> FALSE]

NoneClosed == [how |-> "none", frames |-> << >>]
NoDraw == [done |-> FALSE]

harness == <<collected, cursor, examples>>
flags == <<failed, skipped>>
history == <<raised, aborted>>

Top == stack[Len(stack)]
Rest == SubSeq(stack, 1, Len(stack) - 1)

\* our_interfaces of container_strategies
our_interfaces(container_type) ==
    {base_type \in {Mro(container_type)[i] :
                        i \in 1..Len(Mro(container_type))} :
        /\ Len(Module(base_type)) >= 2
        /\ Module(base_type)[1] = "returns"}

\* the first loop of container_strategies
RegisterAll(reg, keys, factory) ==
    [k \in DOMAIN reg \cup keys |-> IF k \in keys THEN factory ELSE reg[k]]

\* the keys a loop of pops removes
PopAll(reg, keys) == [k \in DOMAIN reg \ keys |-> reg[k]]

\* an exception leaves every open context manager at its yield: none of
\* them has a try/finally, so nothing after a yield runs
Raise(exception, reg) ==
    /\ registry' = reg
    /\ stack' = << >>
    /\ closed' = [how |-> "failed", frames |-> stack]
    /\ err' = exception
    /\ pc' = IF run = NoRun THEN "body" ELSE "idle"
    /\ run' = NoRun
    /\ failed' = TRUE
    /\ raised' = raised \cup {exception}
    /\ UNCHANGED <<namespace, drawn, called, harness, skipped, aborted, pre,
                   pyversion>>

\* a step that opens a context manager
Open(reg, frame, nextpc) ==
    /\ registry' = reg
    /\ stack' = Append(stack, frame)
    /\ closed' = NoneClosed
    /\ err' = "none"
    /\ pc' = nextpc
    /\ UNCHANGED <<namespace, run, drawn, called, harness, flags, history, pre,
                   pyversion>>

\* a step that closes the innermost context manager normally
Close(reg, nextpc) ==
    /\ registry' = reg
    /\ stack' = Rest
    /\ closed' = [how |-> "normal", frames |-> <<Top>>]
    /\ err' = "none"
    /\ pc' = nextpc
    /\ UNCHANGED <<namespace, run, drawn, called, harness, flags, history, pre,
                   pyversion>>

\* type_vars, up to its yield
type_vars_enter(nextpc) ==
    IF "TypeVar" \notin DOMAIN registry
    THEN Raise("KeyError", registry)
    ELSE Open(Register(registry, "TypeVar", TypeVarsFactory),
              Frame("type_vars", NoContainer, FALSE, registry["TypeVar"],
                    FALSE, FALSE, registry),
              nextpc)

\* an exit that registers hypothesis' default instead of used
type_vars_exit_default(nextpc) ==
    /\ stack # << >>
    /\ Top.scope = "type_vars"
    /\ Close(Register(Pop(registry, "TypeVar"), "TypeVar", DefaultTypeVar),
             nextpc)

\* type_vars, after its yield
type_vars_exit(nextpc) ==
    /\ stack # << >>
    /\ Top.scope = "type_vars"
    /\ IF "TypeVar" \notin DOMAIN registry
       THEN Raise("KeyError", registry)
       ELSE Close(Register(Pop(registry, "TypeVar"), "TypeVar", Top.used),
                  nextpc)

\* pure_functions, up to its yield
pure_functions_enter(nextpc) ==
    IF "Callable" \notin DOMAIN registry
    THEN Raise("KeyError", registry)
    ELSE Open(Register(registry, "Callable", PureFunctionsFactory),
              Frame("pure_functions", NoContainer, FALSE, registry["Callable"],
                    FALSE, FALSE, registry),
              nextpc)

\* pure_functions, after its yield
pure_functions_exit(nextpc) ==
    /\ stack # << >>
    /\ Top.scope = "pure_functions"
    /\ IF "Callable" \notin DOMAIN registry
       THEN Raise("KeyError", registry)
       ELSE Close(Register(Pop(registry, "Callable"), "Callable", Top.used),
                  nextpc)

\* maybe_register_container, up to its yield
maybe_register_container_enter(container_type, use_init, inner, nextpc) ==
    LET unknown_container == container_type \notin DOMAIN registry
    IN  Open(IF unknown_container
             THEN Register(registry, container_type,
                           create_container_factory(container_type, use_init))
             ELSE registry,
             Frame("maybe_register_container", container_type, use_init,
                   NoFactory, unknown_container, inner, registry),
             nextpc)

\* an exit without the unknown_container test of line 134
maybe_register_container_exit_pops(nextpc) ==
    /\ stack # << >>
    /\ Top.scope = "maybe_register_container"
    /\ IF Top.container \notin DOMAIN registry
       THEN Raise("KeyError", registry)
       ELSE Close(Pop(registry, Top.container), nextpc)

\* maybe_register_container, after its yield
maybe_register_container_exit(nextpc) ==
    /\ stack # << >>
    /\ Top.scope = "maybe_register_container"
    /\ IF Top.unknown_container
       THEN IF Top.container \notin DOMAIN registry
            THEN Raise("KeyError", registry)
            ELSE Close(Pop(registry, Top.container), nextpc)
       ELSE Close(registry, nextpc)

\* container_strategies, up to the with statement of line 111
container_strategies_enter(container_type, use_init, nextpc) ==
    Open(RegisterAll(registry, our_interfaces(container_type),
                     create_container_factory(container_type, use_init)),
         Frame("container_strategies", container_type, use_init,
               NoFactory, FALSE, FALSE, registry),
         nextpc)

\* container_strategies, the loop after its with statement; the set is
\* walked in an order the model does not fix, and the first key that is
\* gone raises KeyError with the keys before it already removed
container_strategies_exit(nextpc) ==
    /\ stack # << >>
    /\ Top.scope = "container_strategies"
    /\ LET keys == our_interfaces(Top.container)
           present == keys \cap DOMAIN registry
       IN  IF keys \subseteq DOMAIN registry
           THEN Close(PopAll(registry, keys), nextpc)
           ELSE \E removed \in SUBSET present :
                    Raise("KeyError", PopAll(registry, removed))


---------------------------------------------------------------------------
(* The context managers used on their own ("can be used independently     *)
(* from other functions"): a caller nests them and leaves them in LIFO     *)
(* order, or raises in the body of the innermost one.  The caller is       *)
(* followed up to its first exception.                                     *)

\* the containers the hand-opened scopes are given: one of the library, one
\* of a user
HandContainers == {"Maybe", "Box"}

use_type_vars ==
    /\ pc = "body"
    /\ ~failed
    /\ Len(stack) < MaxDepth
    /\ type_vars_enter("body")

use_pure_functions ==
    /\ pc = "body"
    /\ ~failed
    /\ Len(stack) < MaxDepth
    /\ pure_functions_enter("body")

use_container_strategies ==
    /\ pc = "body"
    /\ ~failed
    /\ Len(stack) + 2 <= MaxDepth
    /\ \E container_type \in HandContainers, use_init \in BOOLEAN :
          container_strategies_enter(container_type, use_init,
                                     "with_maybe_register_container")

use_maybe_register_container ==
    /\ pc = "body"
    /\ ~failed
    /\ Len(stack) < MaxDepth
    /\ \E container_type \in HandContainers, use_init \in BOOLEAN :
          maybe_register_container_enter(container_type, use_init, FALSE,
                                         "body")

\* line 111: container_strategies enters maybe_register_container
with_maybe_register_container ==
    /\ pc = "with_maybe_register_container"
    /\ maybe_register_container_enter(Top.container, Top.use_init, TRUE,
                                      IF run = NoRun THEN "body" ELSE "draw")

leave_type_vars ==
    /\ pc \in {"body", "exit"}
    /\ type_vars_exit(pc)

leave_pure_functions ==
    /\ pc \in {"body", "exit"}
    /\ pure_functions_exit(pc)

\* left by its caller, or by container_strategies leaving line 111-112
leave_maybe_register_container ==
    /\ pc \in {"body", "exit"}
    /\ stack # << >>
    /\ maybe_register_container_exit(IF Top.inner THEN "cs_exit" ELSE pc)

\* lines 114-115
leave_container_strategies ==
    /\ pc = "cs_exit"
    /\ container_strategies_exit(IF run = NoRun THEN "body" ELSE "exit")

\* the body of the innermost open scope raises
body_raises ==
    /\ pc = "body"
    /\ stack # << >>
    /\ ~failed
    /\ Raise("Exception", registry)

---------------------------------------------------------------------------
(* Publishing the generated checks.                                        *)

\* the name _create_law_test_case gives the check
test_name(container_type, interface, law) ==
    "test_" \o Lower(QualName(container_type)) \o "_"
            \o Lower(QualName(interface)) \o "_" \o law

Artifact(container_type, interface, law, use_init) ==
    [name |-> test_name(container_type, interface, law),
     container |-> container_type, interface |-> interface, law |-> law,
     use_init |-> use_init]

\* the (interface, law) pairs in the order the loops of check_all_laws
\* visit them
RECURSIVE LawPairsFrom(_, _, _)
LawPairsFrom(items, i, j) ==
    IF i > Len(items) THEN << >>
    ELSE IF j > Len(items[i][2]) THEN LawPairsFrom(items, i + 1, 1)
    ELSE << <<items[i][1], items[i][2][j]>> >>
            \o LawPairsFrom(items, i, j + 1)

LawPairs(container_type) == LawPairsFrom(Laws(container_type), 1, 1)

\* the settings_kwargs a caller passes: hypothesis.settings accepts the
\* first and rejects the second
SettingsKwargs == {"{}", "{'no_such_setting': 1}"}

\* hypothesis_settings(**settings_kwargs) raises InvalidArgument
Rejected(settings_kwargs) == settings_kwargs = "{'no_such_setting': 1}"

\* _Settings(settings_kwargs, use_init)
Settings(settings_kwargs, use_init) ==
    [settings_kwargs |-> settings_kwargs, use_init |-> use_init]

\* a build that sets the attribute before it wraps the check
create_law_test_case_sets_first(ns, container_type, interface, law, settings) ==
    LET artifact == Artifact(container_type, interface, law,
                             settings.use_init)
    IN  [ns |-> [n \in DOMAIN ns \cup {artifact.name} |->
                    IF n = artifact.name THEN artifact ELSE ns[n]],
         exception |-> IF Rejected(settings.settings_kwargs)
                       THEN "InvalidArgument" ELSE "none"]

\* _create_law_test_case: the check is wrapped (lines 257-261), which
\* raises when the settings are rejected, then named and set on the module
\* (lines 263-279)
create_law_test_case(ns, container_type, interface, law, settings) ==
    IF Rejected(settings.settings_kwargs)
    THEN [ns |-> ns, exception |-> "InvalidArgument"]
    ELSE LET artifact == Artifact(container_type, interface, law,
                                  settings.use_init)
         IN  [ns |-> [n \in DOMAIN ns \cup {artifact.name} |->
                         IF n = artifact.name THEN artifact ELSE ns[n]],
              exception |-> "none"]

\* the loops of check_all_laws from pair k on: an exception ends them, what
\* was set before stays set
RECURSIVE PublishFrom(_, _, _, _, _)
PublishFrom(ns, container_type, pairs, k, settings) ==
    IF k > Len(pairs) THEN [ns |-> ns, exception |-> "none"]
    ELSE LET built == create_law_test_case(ns, container_type, pairs[k][1],
                                           pairs[k][2], settings)
         IN  IF built.exception # "none" THEN built
             ELSE PublishFrom(built.ns, container_type, pairs, k + 1,
                              settings)

\* the attributes of the module in the order they were first set
RECURSIVE Collect(_, _, _, _, _)
Collect(names, ns, container_type, pairs, k) ==
    IF k > Len(pairs) THEN names
    ELSE LET name == test_name(container_type, pairs[k][1], pairs[k][2])
         IN  Collect(IF name \notin DOMAIN ns
                        \/ \E i \in 1..Len(names) : names[i] = name
                     THEN names ELSE Append(names, name),
                     ns, container_type, pairs, k + 1)

\* a test module calls it once for each of its containers
check_all_laws ==
    /\ pc = "idle"
    /\ Len(called) + Cardinality(aborted) < MaxCalls
    /\ \E container_type \in Containers, use_init \in BOOLEAN,
          settings_kwargs \in SettingsKwargs :
          LET published == PublishFrom(namespace, container_type,
                                       LawPairs(container_type), 1,
                                       Settings(settings_kwargs, use_init))
          IN  /\ \A i \in 1..Len(called) :
                    called[i].container # container_type
              /\ container_type \notin aborted
              /\ namespace' = published.ns
              /\ collected' = Collect(collected, published.ns, container_type,
                                      LawPairs(container_type), 1)
              /\ err' = published.exception
              /\ IF published.exception = "none"
                 THEN /\ called' = Append(called,
                                          [container |-> container_type,
                                           use_init |-> use_init])
                      /\ UNCHANGED aborted
                 ELSE /\ aborted' = aborted \cup {container_type}
                      /\ UNCHANGED called
    /\ closed' = NoneClosed
    /\ UNCHANGED <<registry, stack, pc, run, drawn, cursor, examples, flags,
                   raised, pre, pyversion>>

---------------------------------------------------------------------------
(* Running a generated check: _run_law.factory.                            *)

\* _pyversion < (3, 7)
TooOld(v) == v[1] < 3 \/ (v[1] = 3 /\ v[2] < 7)

\* an execution without the version test of lines 236-241
factory_begin_unchecked ==
    /\ pc = "idle"
    /\ cursor < Len(collected)
    /\ examples < MaxExamples
    /\ examples' = examples + 1
    /\ err' = "none"
    /\ run' = namespace[collected[cursor + 1]]
    /\ pc' = "with_type_vars"
    /\ closed' = NoneClosed
    /\ drawn' = NoDraw
    /\ UNCHANGED <<registry, stack, namespace, called, collected, cursor,
                   flags, history, pre, pyversion>>

\* the harness executes the next published check once more
factory_begin ==
    /\ pc = "idle"
    /\ cursor < Len(collected)
    /\ examples < MaxExamples
    /\ examples' = examples + 1
    /\ IF TooOld(pyversion)
       THEN /\ err' = "RuntimeError"
            /\ failed' = TRUE
            /\ raised' = raised \cup {"RuntimeError"}
            /\ UNCHANGED <<pc, run>>
       ELSE /\ err' = "none"
            /\ run' = namespace[collected[cursor + 1]]
            /\ pc' = "with_type_vars"
            /\ UNCHANGED <<failed, raised>>
    /\ closed' = NoneClosed
    /\ drawn' = NoDraw
    /\ UNCHANGED <<registry, stack, namespace, called, collected, cursor,
                   skipped, aborted, pre, pyversion>>

\* the harness goes on to the next published check
next_test ==
    /\ pc = "idle"
    /\ cursor < Len(collected)
    /\ cursor' = cursor + 1
    /\ examples' = 0
    /\ skipped' = (skipped \/ examples = 0)
    /\ err' = "none"
    /\ closed' = NoneClosed
    /\ UNCHANGED <<registry, stack, pc, namespace, run, drawn, called,
                   collected, failed, history, pre, pyversion>>

\* line 243 and 244 in the other order: pure_functions entered first
with_type_vars_swapped ==
    /\ pc = "with_type_vars"
    /\ pure_functions_enter("with_pure_functions")

with_type_vars ==
    /\ pc = "with_type_vars"
    /\ type_vars_enter("with_pure_functions")

with_pure_functions ==
    /\ pc = "with_pure_functions"
    /\ pure_functions_enter("with_container_strategies")

with_container_strategies ==
    /\ pc = "with_container_strategies"
    /\ container_strategies_enter(run.container, run.use_init,
                                  "with_maybe_register_container")

\* what from_type finds for the annotations of the law's definition
Resolution(reg, interface) ==
    [done |-> TRUE,
     bound |-> interface \in DOMAIN reg,
     factory |-> IF interface \in DOMAIN reg THEN reg[interface]
                 ELSE NoFactory,
     strategies |-> IF interface \in DOMAIN reg
                       /\ reg[interface].kind = "container"
                    THEN container_strategies_list(reg[interface].container,
                                                   reg[interface].use_init)
                    ELSE << >>,
     type_var |-> [thing \in TypeVars |->
                      TypeVarValues(reg["TypeVar"], thing)],
     callable |-> IF reg["Callable"].kind = "pure_functions"
                  THEN {pure_functions_factory(thing) : thing \in CallableThings}
                  ELSE {}]

\* st.one_of() of no strategies is st.nothing(): nothing can be drawn
CannotDraw(resolution) ==
    /\ resolution.factory.kind = "container"
    /\ resolution.strategies = << >>

\* line 246: source.draw(st.builds(law.definition)); the law holds for the
\* drawn example, or it fails, or the engine stops the example
draw ==
    /\ pc = "draw"
    /\ LET resolution == Resolution(registry, run.interface)
       IN  /\ drawn' = resolution
           /\ \E outcome \in {"pass", "AssertionError", "StopTest",
                              "ResolutionFailed"} :
                 /\ CannotDraw(resolution) => outcome = "ResolutionFailed"
                 /\ outcome = "ResolutionFailed" =>
                        CannotDraw(resolution) \/ ~resolution.bound
                 /\ IF outcome = "pass"
                    THEN /\ pc' = "exit"
                         /\ err' = "none"
                         /\ closed' = NoneClosed
                         /\ UNCHANGED <<registry, stack, run, failed, raised>>
                    ELSE /\ registry' = registry
                         /\ stack' = << >>
                         /\ closed' = [how |-> "failed", frames |-> stack]
                         /\ err' = outcome
                         /\ pc' = "idle"
                         /\ run' = NoRun
                         /\ failed' = TRUE
                         /\ raised' = raised \cup {outcome}
    /\ UNCHANGED <<namespace, called, harness, skipped, aborted, pre,
                   pyversion>>

factory_end ==
    /\ pc = "exit"
    /\ stack = << >>
    /\ pc' = "idle"
    /\ run' = NoRun
    /\ err' = "none"
    /\ closed' = NoneClosed
    /\ UNCHANGED <<registry, stack, namespace, drawn, called, harness, flags,
                   history, pre, pyversion>>

---------------------------------------------------------------------------
(* The initial states and the two specifications.                          *)

\* the types somebody may have registered before this module is used
PreBindable == {"Maybe", "Box", "MappableN"}

InitialRegistries ==
    {[k \in {"TypeVar", "Callable"} \cup bound |->
        CASE k = "TypeVar"  -> DefaultTypeVar
          [] k = "Callable" -> DefaultCallable
          [] OTHER          -> UserFactory] : bound \in SUBSET PreBindable}

InitCommon ==
    /\ registry \in InitialRegistries
    /\ pre = registry
    /\ stack = << >>
    /\ namespace = << >>
    /\ run = NoRun
    /\ err = "none"
    /\ closed = NoneClosed
    /\ drawn = NoDraw
    /\ called = << >>
    /\ collected = << >>
    /\ cursor = 0
    /\ examples = 0
    /\ failed = FALSE
    /\ skipped = FALSE
    /\ raised = {}
    /\ aborted = {}

\* the test session: check_all_laws at import, then the harness runs checks
Init ==
    /\ InitCommon
    /\ pc = "idle"
    /\ pyversion \in {<<3, 6>>, <<3, 7>>}

Next ==
    \/ check_all_laws
    \/ factory_begin
    \/ next_test
    \/ with_type_vars
    \/ with_pure_functions
    \/ with_container_strategies
    \/ with_maybe_register_container
    \/ draw
    \/ leave_maybe_register_container
    \/ leave_container_strategies
    \/ leave_pure_functions
    \/ leave_type_vars
    \/ factory_end

Spec == Init /\ [][Next]_vars

\* the context managers used by hand
InitScopes ==
    /\ InitCommon
    /\ pc = "body"
    /\ pyversion = <<3, 7>>

NextScopes ==
    \/ use_type_vars
    \/ use_pure_functions
    \/ use_container_strategies
    \/ use_maybe_register_container
    \/ with_maybe_register_container
    \/ leave_maybe_register_container
    \/ leave_container_strategies
    \/ leave_pure_functions
    \/ leave_type_vars
    \/ body_raises

SpecScopes == InitScopes /\ [][NextScopes]_vars

---------------------------------------------------------------------------
(* The claims.                                                             *)

ClosedNormally(scope) ==
    /\ closed.how = "normal"
    /\ closed.frames[1].scope = scope

SameBindings(reg1, reg2) ==
    /\ DOMAIN reg1 = DOMAIN reg2
    /\ \A k \in DOMAIN reg1 : reg1[k] = reg2[k]

\* C1: when a container_strategies scope has been entered and its body has
\* completed normally, the registry has exactly the keys and factories it
\* had before the scope was entered, whatever was bound before.
C1_ScopeRestoresRegistry ==
    ClosedNormally("container_strategies") =>
        SameBindings(registry, closed.frames[1].entry)

\* C2: when the body of the scopes a law check opened raises, the registry
\* after the failure equals the registry before the outermost of these
\* scopes was entered.
C2_FailureRestoresRegistry ==
    (closed.how = "failed" /\ closed.frames # << >>) =>
        SameBindings(registry, closed.frames[1].entry)

\* every published check was executed, and every execution completed
\* normally
AllChecksCompleted ==
    /\ pc = "idle"
    /\ cursor = Len(collected)
    /\ ~skipped
    /\ ~failed

\* C3: after check_all_laws was called for two different containers and
\* all their checks have run to completion, the registry equals its state
\* before the run.
C3_RegistryAsBeforeRun ==
    (/\ Len(called) = 2
     /\ called[1].container # called[2].container
     /\ AllChecksCompleted) =>
        SameBindings(registry, pre)

\* C4: check_all_laws publishes nothing for a container that has no
\* construction capability under the given settings.
C4_NothingPublishedWithoutCapability ==
    \A name \in DOMAIN namespace :
        container_strategies_list(namespace[name].container,
                                  namespace[name].use_init) # << >>

\* C5: maybe_register_container binds the container at entry only if it is
\* not bound yet, to the container factory, and touches nothing else; its
\* normal exit removes that binding only if the scope bound it at entry,
\* and otherwise leaves the registry as it is.
C5_Step ==
    /\ (/\ Len(stack') = Len(stack) + 1
        /\ stack'[Len(stack')].scope = "maybe_register_container") =>
           LET frame == stack'[Len(stack')]
               c == frame.container
           IN  IF c \in DOMAIN registry
               THEN SameBindings(registry', registry)
               ELSE /\ DOMAIN registry' = DOMAIN registry \cup {c}
                    /\ registry'[c] = Factory("container", c, frame.use_init)
                    /\ \A k \in DOMAIN registry : registry'[k] = registry[k]
    /\ (/\ closed'.how = "normal"
        /\ closed'.frames[1].scope = "maybe_register_container") =>
           LET frame == closed'.frames[1]
               c == frame.container
           IN  IF c \in DOMAIN frame.entry
               THEN SameBindings(registry', registry)
               ELSE /\ DOMAIN registry' = DOMAIN registry \ {c}
                    /\ \A k \in DOMAIN registry' : registry'[k] = registry[k]

\* C5: every step of the program satisfies the entry and exit rule of
\* maybe_register_container stated above.
C5_BindsAndUnbindsOnlyItsOwn == [][C5_Step]_vars

\* a maybe_register_container scope entered for a container that was bound
\* already has just been left, and one that bound its container is open
C5_Witness ==
    /\ ClosedNormally("maybe_register_container")
    /\ closed.frames[1].container \in DOMAIN closed.frames[1].entry
    /\ closed.frames[1].entry[closed.frames[1].container] = UserFactory
    /\ stack # << >>
    /\ Top.scope = "maybe_register_container"
    /\ Top.container \notin DOMAIN Top.entry
    /\ registry[Top.container] = Factory("container", Top.container, Top.use_init)

Open_(scope) == \E i \in 1..Len(stack) : stack[i].scope = scope

\* C6: while a type_vars (pure_functions) scope is open the registry binds
\* TypeVar (Callable) to that scope's factory; each normal exit rebinds the
\* key to the factory bound when that scope was entered; once the outermost
\* such scope is left the factory bound in the beginning is back.
C6_ResolversRestored ==
    ~failed =>
        /\ registry["TypeVar"] = IF Open_("type_vars")
                                   THEN Factory("type_vars", NoContainer, FALSE)
                                   ELSE pre["TypeVar"]
        /\ registry["Callable"] = IF Open_("pure_functions")
                                    THEN Factory("pure_functions", NoContainer, FALSE)
                                    ELSE pre["Callable"]
        /\ ClosedNormally("type_vars") =>
              registry["TypeVar"] = closed.frames[1].entry["TypeVar"]
        /\ ClosedNormally("pure_functions") =>
              registry["Callable"] = closed.frames[1].entry["Callable"]

\* the inner of two nested type_vars scopes has been left, inside a
\* pure_functions scope
C6_Witness ==
    /\ ClosedNormally("type_vars")
    /\ closed.frames[1].entry["TypeVar"].kind = "type_vars"
    /\ Open_("type_vars")
    /\ Open_("pure_functions")

\* C7: check_all_laws leaves as many names of a container in the namespace
\* as the container has (interface, law) pairs.
C7_OneNamePerLaw ==
    \A i \in 1..Len(called) :
        Cardinality({name \in DOMAIN namespace :
                        namespace[name].container = called[i].container})
            = Len(LawPairs(called[i].container))

\* C8: the strategies the container factory unites are: the raw constructor
\* iff use_init is set and the type has a usable one, from_value iff the
\* type is Applicative, from_failure iff it is Result-like, from_optional
\* iff it is Maybe-like, each once and nothing else.
C8_UnionOfCapabilities ==
    (drawn.done /\ drawn.factory.kind = "container") =>
        LET c == drawn.factory.container
            u == drawn.factory.use_init
            subs == {drawn.strategies[i] : i \in 1..Len(drawn.strategies)}
        IN  /\ "init" \in subs <=> (u /\ HasInit(c))
            /\ "from_value" \in subs <=> IsSubclass(c, "ApplicativeN")
            /\ "from_failure" \in subs <=> IsSubclass(c, "ResultLikeN")
            /\ "from_optional" \in subs <=> IsSubclass(c, "MaybeLikeN")
            /\ subs \subseteq {"init", "from_value", "from_failure",
                               "from_optional"}
            /\ Cardinality(subs) = Len(drawn.strategies)
            /\ ~u => "init" \notin subs

\* a draw from the factory of a container that has a constructor and other
\* capabilities, once with use_init set
C8_Witness ==
    /\ drawn.done
    /\ drawn.factory.kind = "container"
    /\ drawn.factory.container = "Maybe"
    /\ drawn.factory.use_init
    /\ drawn.strategies = <<"init", "from_value", "from_optional">>

C10_BindingsAtDraw ==
    (pc = "draw" /\ run.container \notin DOMAIN stack[1].entry) =>
        /\ \A k \in {run.container} \cup CapabilityChain(run.container) :
              /\ k \in DOMAIN registry
              /\ registry[k].kind = "container"
              /\ registry[k].container = run.container
        /\ registry["Callable"] = PureFunctionsFactory
        /\ registry["TypeVar"] = TypeVarsFactory


\* the with statements of _run_law.factory, outermost first
ScopeOrder == <<"type_vars", "pure_functions", "container_strategies",
                "maybe_register_container">>

\* C11: while a generated check runs, the open scopes are type_vars,
\* pure_functions, container_strategies, maybe_register_container in this
\* order of entry; the draw happens with all four open; a scope that is
\* left normally is the innermost open one, and is left after the draw.
C11_StrictlyNested ==
    run # NoRun =>
        /\ Len(stack) <= Len(ScopeOrder)
        /\ \A i \in 1..Len(stack) : stack[i].scope = ScopeOrder[i]
        /\ pc = "draw" => Len(stack) = Len(ScopeOrder)
        /\ drawn.done => pc \in {"exit", "cs_exit"}
        /\ pc \in {"with_type_vars", "with_pure_functions",
                   "with_container_strategies",
                   "with_maybe_register_container", "draw"} =>
              closed.how = "none"
        /\ closed.how = "normal" =>
              /\ drawn.done
              /\ closed.frames[1].scope = ScopeOrder[Len(stack) + 1]

\* a check that drew has left its three inner scopes; type_vars, entered
\* first, is the only one still open
C11_Witness ==
    /\ run # NoRun
    /\ drawn.done
    /\ ClosedNormally("pure_functions")
    /\ Len(stack) = 1
    /\ Top.scope = "type_vars"

\* the frames are those of container_strategies scopes only
OnlyContainerStrategies(frames) ==
    \A i \in 1..Len(frames) :
        \/ frames[i].scope = "container_strategies"
        \/ frames[i].scope = "maybe_register_container" /\ frames[i].inner

\* C12: with nothing of the library bound beforehand, when a
\* container_strategies scope is left inside the body of another one the
\* registry equals its state at the entry of the inner scope; the outer
\* scope is then left without a KeyError and the registry equals its state
\* at the entry of the outer scope.
C12_NestedScopesRestore ==
    DOMAIN pre = {"TypeVar", "Callable"} =>
        /\ (/\ ClosedNormally("container_strategies")
            /\ OnlyContainerStrategies(stack)) =>
               SameBindings(registry, closed.frames[1].entry)
        /\ ~(/\ closed.how = "failed"
             /\ err = "KeyError"
             /\ OnlyContainerStrategies(closed.frames))

\* C13: when nothing of the library was bound beforehand and the only
\* exceptions so far were law violations, every generated check starts
\* from the registry as it was before the run (the state it starts from
\* when the earlier checks pass), and the registry is in that state again
\* once the harness is through all checks.
C13_SiblingsUnaffected ==
    (/\ DOMAIN pre \subseteq {"TypeVar", "Callable", "Box"}
     /\ raised \subseteq {"AssertionError"}) =>
        /\ pc = "with_type_vars" => SameBindings(registry, pre)
        /\ (pc = "idle" /\ cursor = Len(collected)) =>
              SameBindings(registry, pre)

\* C14: on an interpreter older than 3.7 no execution of a generated
\* check enters a scope or changes the registry: each one raises
\* RuntimeError, whichever check it is and however often it is executed;
\* check_all_laws still publishes the checks of every container it is
\* called with.
C14_EnvironmentCheckedEachRun ==
    TooOld(pyversion) =>
        /\ SameBindings(registry, pre)
        /\ stack = << >>
        /\ run = NoRun
        /\ pc = "idle"
        /\ raised \subseteq {"RuntimeError"}
        /\ examples > 0 => (failed /\ raised = {"RuntimeError"})
        /\ \A i \in 1..Len(called) :
              \E name \in DOMAIN namespace :
                  namespace[name].container = called[i].container

\* on an old interpreter the second published check has just raised
\* RuntimeError, as the first did
C14_Witness ==
    /\ TooOld(pyversion)
    /\ Len(called) >= 1
    /\ cursor >= 1
    /\ ~skipped
    /\ examples = 1
    /\ err = "RuntimeError"

C16_RegistryUntouchedOutsideChecks ==
    (pc = "idle" /\ ~failed) => SameBindings(registry, pre)

=============================================================================
